---- MODULE Spec2Model ----
(***************************************************************************)
(* Model of the verbosity crate (src/src/verbosity.rs): a process-wide,    *)
(* set-once Verbosity level.  REPORTING is an RwLock<Verbosity> holding    *)
(* the level, REPORTING_SET is the AtomicBool latch.  Threads call         *)
(* set_as_global, level, is_quite, is_terse and is_verbose; each call is   *)
(* split at the points where another thread can interleave: the            *)
(* compare_exchange on the latch, the acquisition of the RwLock and the    *)
(* access made under the lock (the guard is dropped at the end of the      *)
(* statement that took it).                                                *)
(***************************************************************************)
EXTENDS Integers, FiniteSets, Sequences, TLC

(* ---------------------------------------------------------------- bounds *)
NumThreads == 2
MaxOps == 4

Threads == 1 .. NumThreads

(* ------------------------------------------------- enum Verbosity (l.16) *)
Quite == 0
Terse == 1
Verbose == 2
Levels == {Quite, Terse, Verbose}

(* initial value of REPORTING and of REPORTING_SET (lazy_static, l.48-51)  *)
DefaultLevelTerse == Terse

DefaultLevel == Quite
DefaultSet == FALSE

(* the read operations *)
ReadOps == {"level", "is_quite", "is_terse", "is_verbose"}

NoRet == [op |-> "none", val |-> 0]
ForTestRet(v) == [op |-> "set_as_global_for_test", val |-> v]
NotForced == [done |-> FALSE, level |-> 0, set |-> FALSE, before |-> 0]
SetRet(v) == [op |-> "set_as_global", val |-> v]

VARIABLES
    REPORTING,      \* the value inside the RwLock
    REPORTING_SET,  \* the AtomicBool latch
    writer,         \* the threads holding the write lock of REPORTING
    readers,        \* threads holding a read lock of REPORTING
    pc,             \* pc[t]: where thread t is inside its current call
    self,           \* self[t]: the level set_as_global was called on
    set,            \* set[t]: the local `set` of set_as_global
    op,             \* op[t]: the read operation thread t is running
    ret,            \* ret[t]: the last call t completed: its name and what
                    \* it returned (for set_as_global, which returns
                    \* nothing, the level it was called on)
    ops,            \* number of calls started so far, by all threads
    \* the log of the latch and of the stored level
    firsts,         \* sequence of the calls whose compare_exchange found
                    \* the latch unset
    written,        \* sequence of the writes made to REPORTING
    \* observations of the run, which no action reads
    startSet,       \* startSet[t]: the latch when t's set_as_global started
    setCalls,       \* the set_as_global calls started, <<thread, level>>,
                    \* recorded for as long as distinctCalls holds
    distinctCalls,  \* no thread and no level occurs twice in the
                    \* set_as_global calls started
    returned,       \* returned[t]: a set_as_global call of t has returned
    seen,           \* seen[t]: values level() gave t after returned[t]
    firstDone,      \* the call that flipped the latch has returned
    fresh,          \* fresh[t]: t's read started after firstDone
    forced,         \* the last write of set_as_global_for_test: its level,
                    \* the latch at that time and the number of writes
                    \* set_as_global had made
    \* Display and FromStr
    source,         \* the text given to from_str
    parsed,         \* what from_str returned
    shown,          \* the level given to fmt
    text,           \* what fmt wrote
    reparsed,       \* what from_str returned for `text`
    shownIsParsed,  \* shown is the level from_str returned for `source`
    \* Ord and PartialOrd
    ord             \* three levels and the results of comparing them

lockVars == <<writer, readers>>
logVars == <<firsts, written>>
obsVars == <<startSet, setCalls, distinctCalls, returned, seen, firstDone,
             fresh>>
histVars == <<logVars, obsVars>>
registryVars == <<REPORTING, REPORTING_SET, lockVars, pc, self, set, op, ret,
                  ops, histVars, forced>>
textVars == <<source, parsed, shown, text, reparsed, shownIsParsed>>

pureVars == <<textVars, ord>>

vars == <<registryVars, pureVars>>

(* ----------------------------------------------------------- pure helpers *)

(* AtomicBool::compare_exchange(false, true, SeqCst, SeqCst) on a latch    *)
(* holding `current`: stores true when it holds false; Ok(previous) and    *)
(* Err(actual) both carry the value found, which the match binds to `set`. *)
compare_exchange_lost(current) ==
    [stored |-> current, found |-> current]

compare_exchange_toggle(current) ==
    [stored |-> ~current, found |-> current]

compare_exchange(current) ==
    IF current = FALSE
    THEN [stored |-> TRUE, found |-> current]
    ELSE [stored |-> current, found |-> current]

(* `if !set` of set_as_global: whether the call goes on to write *)
must_write_always(s) == TRUE

must_write_inverted(s) == s

must_write(s) == ~s

(* is_quite: *REPORTING.read() == Self::Quite *)
is_quite(v) == v = Quite

(* is_terse: *REPORTING.read() != Self::Quite *)
is_terse_exact(v) == v = Terse

is_terse(v) == v # Quite

(* is_verbose: *REPORTING.read() == Self::Verbose *)
is_verbose(v) == v = Verbose

(* what read operation o returns when the locked value is v *)
Eval(o, v) ==
    CASE o = "level" -> v
      [] o = "is_quite" -> is_quite(v)
      [] o = "is_terse" -> is_terse(v)
      [] o = "is_verbose" -> is_verbose(v)

(* ------------------------------------------------------------------ Init *)
InitRegistry ==
    /\ REPORTING = DefaultLevel
    /\ REPORTING_SET = DefaultSet
    /\ writer = {}
    /\ readers = {}
    /\ pc = [t \in Threads |-> "idle"]
    /\ self = [t \in Threads |-> Quite]
    /\ set = [t \in Threads |-> FALSE]
    /\ op = [t \in Threads |-> "level"]
    /\ ret = [t \in Threads |-> NoRet]
    /\ ops = 0
    /\ startSet = [t \in Threads |-> FALSE]
    /\ setCalls = {}
    /\ distinctCalls = TRUE
    /\ firsts = <<>>
    /\ written = <<>>
    /\ returned = [t \in Threads |-> FALSE]
    /\ seen = [t \in Threads |-> {}]
    /\ firstDone = FALSE
    /\ fresh = [t \in Threads |-> FALSE]
    /\ forced = NotForced

(* -------------------------------------------------- set_as_global (l.181) *)

(* thread t enters v.set_as_global() *)
BeginSetAsGlobal(t, v) ==
    /\ pc[t] = "idle"
    /\ pc' = [pc EXCEPT ![t] = "cas"]
    /\ self' = [self EXCEPT ![t] = v]
    /\ ret' = [ret EXCEPT ![t] = NoRet]
    /\ UNCHANGED <<REPORTING, REPORTING_SET, lockVars, set, op, logVars>>

(* thread t calls v.set_as_global(), one of the MaxOps calls of the run *)
CallSetAsGlobal(t, v) ==
    /\ ops < MaxOps
    /\ ops' = ops + 1
    /\ BeginSetAsGlobal(t, v)

(* the call of thread t on level v is one whose compare_exchange found the *)
(* latch unset                                                             *)
IsFirst(t, v) ==
    \E i \in 1 .. Len(firsts) : firsts[i] = [thread |-> t, level |-> v]

(* a set_as_global call of t returns (it returns nothing) *)
SetReturns(t) ==
    /\ ret' = [ret EXCEPT ![t] = SetRet(self[t])]
    /\ pc' = [pc EXCEPT ![t] = "idle"]
    /\ self' = [self EXCEPT ![t] = Quite]
    /\ set' = [set EXCEPT ![t] = FALSE]

(* l.182-187: the compare_exchange and the test of `set`; a call that      *)
(* found the latch set returns here                                        *)
CompareExchange(t) ==
    /\ pc[t] = "cas"
    /\ LET r == compare_exchange(REPORTING_SET) IN
        /\ REPORTING_SET' = r.stored
        /\ firsts' = IF r.found = FALSE
                     THEN Append(firsts, [thread |-> t, level |-> self[t]])
                     ELSE firsts
        /\ IF must_write(r.found)
           THEN /\ pc' = [pc EXCEPT ![t] = "wlock"]
                /\ set' = [set EXCEPT ![t] = r.found]
                /\ UNCHANGED <<self, ret>>
           ELSE SetReturns(t)
    /\ UNCHANGED <<REPORTING, lockVars, op, ops, written>>

(* l.188: REPORTING.write() (parking_lot's task-fair RwLock) takes the     *)
(* writer bit as soon as no other writer has it; from then on read() waits *)
WriteLock(t) ==
    /\ pc[t] = "wlock"
    /\ writer = {}
    /\ writer' = {t}
    /\ pc' = [pc EXCEPT ![t] = "write"]
    /\ UNCHANGED <<REPORTING, REPORTING_SET, readers, self, set, op, ret,
                   ops, logVars>>

(* l.188: write() returns once the readers that had the lock have dropped  *)
(* it; the assignment through the guard, which is then dropped; the call   *)
(* returns                                                                 *)
Write(t) ==
    /\ pc[t] = "write"
    /\ writer = {t}
    /\ readers = {}
    /\ REPORTING' = self[t]
    /\ writer' = {}
    /\ written' = Append(written, [thread |-> t, level |-> self[t]])
    /\ SetReturns(t)
    /\ UNCHANGED <<REPORTING_SET, readers, op, ops, firsts>>

(* ------------------- level, is_quite, is_terse, is_verbose (l.66 - l.162) *)

(* thread t enters read operation o *)
BeginRead(t, o) ==
    /\ pc[t] = "idle"
    /\ pc' = [pc EXCEPT ![t] = "rlock"]
    /\ op' = [op EXCEPT ![t] = o]
    /\ ret' = [ret EXCEPT ![t] = NoRet]
    /\ UNCHANGED <<REPORTING, REPORTING_SET, lockVars, self, set, logVars>>

(* thread t calls read operation o, one of the MaxOps calls of the run *)
CallRead(t, o) ==
    /\ ops < MaxOps
    /\ ops' = ops + 1
    /\ BeginRead(t, o)

(* REPORTING.read() returns once no thread holds the writer bit *)
ReadLock(t) ==
    /\ pc[t] = "rlock"
    /\ writer = {}
    /\ readers' = readers \cup {t}
    /\ pc' = [pc EXCEPT ![t] = "read"]
    /\ UNCHANGED <<REPORTING, REPORTING_SET, writer, self, set, op, ret,
                   ops, logVars>>

(* the value is read (and compared) through the guard, the guard is        *)
(* dropped and the call returns                                            *)
Read(t) ==
    /\ pc[t] = "read"
    /\ t \in readers
    /\ ret' = [ret EXCEPT ![t] = [op |-> op[t], val |-> Eval(op[t], REPORTING)]]
    /\ readers' = readers \ {t}
    /\ pc' = [pc EXCEPT ![t] = "idle"]
    /\ op' = [op EXCEPT ![t] = "level"]
    /\ UNCHANGED <<REPORTING, REPORTING_SET, writer, self, set, ops, logVars>>

(* ----------------------------------- set_as_global_for_test (l.192 - l.197) *)

(* thread t calls v.set_as_global_for_test(), one of the MaxOps calls *)
CallForTest(t, v) ==
    /\ pc[t] = "idle"
    /\ ops < MaxOps
    /\ ops' = ops + 1
    /\ pc' = [pc EXCEPT ![t] = "twlock"]
    /\ self' = [self EXCEPT ![t] = v]
    /\ ret' = [ret EXCEPT ![t] = NoRet]
    /\ UNCHANGED <<REPORTING, REPORTING_SET, lockVars, set, op, logVars,
                   forced>>

(* l.196: REPORTING.write() takes the writer bit *)
ForTestLock(t) ==
    /\ pc[t] = "twlock"
    /\ writer = {}
    /\ writer' = {t}
    /\ pc' = [pc EXCEPT ![t] = "twrite"]
    /\ UNCHANGED <<REPORTING, REPORTING_SET, readers, self, set, op, ret,
                   ops, logVars, forced>>

(* l.196: once the readers have dropped the lock, the assignment through   *)
(* the guard, which is then dropped; the call returns                      *)
ForTestWrite(t) ==
    /\ pc[t] = "twrite"
    /\ writer = {t}
    /\ readers = {}
    /\ REPORTING' = self[t]
    /\ writer' = {}
    /\ ret' = [ret EXCEPT ![t] = ForTestRet(self[t])]
    /\ pc' = [pc EXCEPT ![t] = "idle"]
    /\ self' = [self EXCEPT ![t] = Quite]
    /\ forced' = [done |-> TRUE, level |-> self[t], set |-> REPORTING_SET,
                  before |-> Len(written)]
    /\ UNCHANGED <<REPORTING_SET, readers, set, op, ops, logVars>>

(* ------------------------------------------------------------ observation *)

(* what the step thread t has just taken adds to the observations: the     *)
(* step is known by where it takes the thread from and to                  *)
EntersSet(t) == pc[t] = "idle" /\ pc'[t] = "cas"
EntersRead(t) == pc[t] = "idle" /\ pc'[t] = "rlock"
LeavesSet(t) == pc[t] \in {"cas", "write"} /\ pc'[t] = "idle"
LeavesRead(t) == pc[t] = "read" /\ pc'[t] = "idle"

Observe(t) ==
    /\ startSet' = [startSet EXCEPT ![t] =
                      IF EntersSet(t) THEN REPORTING_SET
                      ELSE IF EntersRead(t) THEN FALSE ELSE @]
    /\ fresh' = [fresh EXCEPT ![t] =
                   IF EntersRead(t) THEN firstDone
                   ELSE IF EntersSet(t) THEN FALSE ELSE @]
    /\ distinctCalls' =
          IF EntersSet(t)
          THEN distinctCalls /\
                  \A c \in setCalls : c[1] # t /\ c[2] # self'[t]
          ELSE distinctCalls
    /\ setCalls' =
          IF EntersSet(t)
          THEN IF distinctCalls' THEN setCalls \cup {<<t, self'[t]>>} ELSE {}
          ELSE setCalls
    /\ returned' = [returned EXCEPT ![t] = @ \/ LeavesSet(t)]
    /\ firstDone' = (firstDone \/
                       (pc[t] = "write" /\ LeavesSet(t) /\ IsFirst(t, self[t])))

(* the levels that the level() calls of thread t return once a             *)
(* set_as_global of t has returned                                         *)
ObserveSeen(t) ==
    seen' = [seen EXCEPT ![t] =
               IF LeavesSet(t) /\ ~returned[t] THEN {}
               ELSE IF LeavesRead(t) /\ returned[t] /\ op[t] = "level"
                    THEN @ \cup {REPORTING}
                    ELSE @]


(* ------------------------------------- Display and FromStr (l.25 - l.46) *)

(* the texts given to from_str: the three names, and texts that differ     *)
(* from a name by spelling, case, surrounding space or quotes              *)
Sources == {"quite", "terse", "verbose", "quiet", "Terse", "QUITE",
            " verbose", "terse ", "loud", "", "\"terse\""}

NoText == "<none>"
NoParse == [ok |-> FALSE, err |-> NoText]

Ok(v) == [ok |-> TRUE, val |-> v]
Err(e) == [ok |-> FALSE, err |-> e]

(* impl Display: the text fmt writes for level v *)
fmt_quiet(v) ==
    CASE v = Terse -> "terse"
      [] v = Verbose -> "verbose"
      [] v = Quite -> "quiet"

fmt(v) ==
    CASE v = Terse -> "terse"
      [] v = Verbose -> "verbose"
      [] v = Quite -> "quite"

(* {:?} of a str: the text between double quotes, with the double quotes  *)
(* and backslashes inside it escaped by a backslash; of the Sources only   *)
(* the quoted name has such a character                                    *)
escape_debug(s) ==
    CASE s = "\"terse\"" -> "\\\"terse\\\""
      [] OTHER -> s

debug_str(s) == "\"" \o escape_debug(s) \o "\""

(* impl FromStr: an exact match of the text against the three names; the   *)
(* error is format!("{:?} is not a valid verbosity", source)               *)
from_str_folded(s) ==
    CASE s \in {"terse", "Terse", "terse "} -> Ok(Terse)
      [] s \in {"verbose", " verbose"} -> Ok(Verbose)
      [] s \in {"quite", "QUITE"} -> Ok(Quite)
      [] OTHER -> Err(debug_str(s) \o " is not a valid verbosity")

from_str(s) ==
    CASE s = "terse" -> Ok(Terse)
      [] s = "verbose" -> Ok(Verbose)
      [] s = "quite" -> Ok(Quite)
      [] OTHER -> Err(debug_str(s) \o " is not a valid verbosity")

InitTextIdle ==
    /\ source = NoText
    /\ parsed = NoParse
    /\ shown = Quite
    /\ text = NoText
    /\ reparsed = NoParse
    /\ shownIsParsed = FALSE

InitText ==
    /\ source \in Sources
    /\ parsed = NoParse
    /\ shown \in Levels
    /\ text = NoText
    /\ reparsed = NoParse
    /\ shownIsParsed = FALSE

(* Verbosity::from_str(source) *)
FromStr ==
    /\ parsed = NoParse
    /\ parsed' = from_str(source)
    /\ UNCHANGED <<source, shown, text, reparsed, shownIsParsed>>

(* shown.to_string() *)
Fmt ==
    /\ text = NoText
    /\ text' = fmt(shown)
    /\ UNCHANGED <<source, parsed, shown, reparsed, shownIsParsed>>

(* the level from_str returned is formatted *)
FmtParsed ==
    /\ parsed.ok
    /\ ~shownIsParsed
    /\ shown' = parsed.val
    /\ text' = fmt(parsed.val)
    /\ reparsed' = NoParse
    /\ shownIsParsed' = TRUE
    /\ UNCHANGED <<source, parsed>>

(* the text fmt wrote is parsed *)
FromStrText ==
    /\ text # NoText
    /\ reparsed = NoParse
    /\ reparsed' = from_str(text)
    /\ UNCHANGED <<source, parsed, shown, text, shownIsParsed>>

(* ------------------------------- derive(Ord, PartialOrd) (l.15 - l.23) *)

(* the derived Ord::cmp of a fieldless enum compares the discriminants,    *)
(* which follow the order in which the variants are declared                *)
cmp_reversed(a, b) ==
    IF b < a THEN "Less" ELSE IF a = b THEN "Equal" ELSE "Greater"

cmp(a, b) ==
    IF a < b THEN "Less" ELSE IF a = b THEN "Equal" ELSE "Greater"

(* the derived PartialOrd operators, which go through the comparison *)
ge(a, b) == cmp(a, b) # "Less"

NoCmp == "none"

OrdOf(a, b, c) ==
    [a |-> a, b |-> b, c |-> c, aa |-> NoCmp, ab |-> NoCmp, ba |-> NoCmp,
     bc |-> NoCmp, ac |-> NoCmp, tested |-> FALSE, terse |-> FALSE,
     ge |-> FALSE]

InitOrdIdle == ord = OrdOf(Quite, Quite, Quite)

InitOrd == \E a, b, c \in Levels : ord = OrdOf(a, b, c)

(* a.cmp(&a) *)
CmpAA ==
    /\ ord.aa = NoCmp
    /\ ord' = [ord EXCEPT !.aa = cmp(ord.a, ord.a)]

(* a.cmp(&b) and b.cmp(&a) *)
CmpAB ==
    /\ ord.ab = NoCmp
    /\ ord' = [ord EXCEPT !.ab = cmp(ord.a, ord.b), !.ba = cmp(ord.b, ord.a)]

(* b.cmp(&c) *)
CmpBC ==
    /\ ord.bc = NoCmp
    /\ ord' = [ord EXCEPT !.bc = cmp(ord.b, ord.c)]

(* a.cmp(&c) *)
CmpAC ==
    /\ ord.ac = NoCmp
    /\ ord' = [ord EXCEPT !.ac = cmp(ord.a, ord.c)]

(* what is_terse() computes from a stored level c, and c >= Terse *)
TerseOfC ==
    /\ ~ord.tested
    /\ ord' = [ord EXCEPT !.tested = TRUE, !.terse = is_terse(ord.c),
                          !.ge = ge(ord.c, Terse)]

(* ------------------------------------------------------------------ Next *)
Init == InitRegistry /\ InitTextIdle /\ InitOrdIdle

ThreadNext(t) ==
    \/ \E v \in Levels : CallSetAsGlobal(t, v)
    \/ CompareExchange(t)
    \/ WriteLock(t)
    \/ Write(t)
    \/ \E o \in ReadOps : CallRead(t, o)
    \/ ReadLock(t)
    \/ Read(t)

Next ==
    /\ \E t \in Threads : ThreadNext(t) /\ Observe(t)
    /\ UNCHANGED <<seen, forced, pureVars>>

Spec == Init /\ [][Next]_vars

(* the registry after thread 1 has run v.set_as_global() to its end *)
SetRegistry(v) ==
    /\ REPORTING = v
    /\ REPORTING_SET = TRUE
    /\ writer = {}
    /\ readers = {}
    /\ pc = [t \in Threads |-> "idle"]
    /\ self = [t \in Threads |-> Quite]
    /\ set = [t \in Threads |-> FALSE]
    /\ op = [t \in Threads |-> "level"]
    /\ ret = [t \in Threads |-> IF t = 1 THEN SetRet(v) ELSE NoRet]
    /\ ops = 1
    /\ startSet = [t \in Threads |-> FALSE]
    /\ setCalls = {<<1, v>>}
    /\ distinctCalls = TRUE
    /\ firsts = <<[thread |-> 1, level |-> v]>>
    /\ written = <<[thread |-> 1, level |-> v]>>
    /\ returned = [t \in Threads |-> t = 1]
    /\ seen = [t \in Threads |-> {}]
    /\ firstDone = TRUE
    /\ fresh = [t \in Threads |-> FALSE]
    /\ forced = NotForced

(* from_str and fmt are called on a fresh registry or on a set one *)
InitTexts ==
    /\ InitRegistry \/ \E v \in Levels : SetRegistry(v)
    /\ InitText
    /\ InitOrdIdle

NextText ==
    /\ \/ FromStr
       \/ Fmt
       \/ FmtParsed
       \/ FromStrText
    /\ UNCHANGED <<registryVars, ord>>

SpecText == InitTexts /\ [][NextText]_vars

(* the production operations, with what each thread's level() calls       *)
(* returned                                                                *)
NextSeen ==
    /\ \E t \in Threads : ThreadNext(t) /\ Observe(t) /\ ObserveSeen(t)
    /\ UNCHANGED <<forced, pureVars>>

SpecSeen == Init /\ [][NextSeen]_vars

(* a test build: the threads also call set_as_global_for_test; their reads *)
(* are level(), the read the three predicates are computed from            *)
TestNext(t) ==
    \/ /\ \/ \E v \in Levels : CallSetAsGlobal(t, v)
          \/ CompareExchange(t)
          \/ WriteLock(t)
          \/ Write(t)
          \/ CallRead(t, "level")
          \/ ReadLock(t)
          \/ Read(t)
       /\ UNCHANGED forced
    \/ \E v \in Levels : CallForTest(t, v)
    \/ ForTestLock(t)
    \/ ForTestWrite(t)

NextTest ==
    /\ \E t \in Threads : TestNext(t)
    /\ UNCHANGED <<obsVars, pureVars>>

SpecTest == Init /\ [][NextTest]_vars

InitOrds == InitRegistry /\ InitTextIdle /\ InitOrd

NextOrd ==
    /\ \/ CmpAA
       \/ CmpAB
       \/ CmpBC
       \/ CmpAC
       \/ TerseOfC
    /\ UNCHANGED <<registryVars, textVars>>

SpecOrd == InitOrds /\ [][NextOrd]_vars

(* threads that go on calling for ever: the steps of thread t inside a     *)
(* call, which a fair scheduler goes on taking, and the calls themselves,  *)
(* which no thread has to make                                             *)
ThreadStep(t) ==
    /\ \/ CompareExchange(t)
       \/ WriteLock(t)
       \/ Write(t)
       \/ ReadLock(t)
       \/ Read(t)
    /\ UNCHANGED <<obsVars, forced, pureVars>>

ThreadCall(t) ==
    /\ \/ \E v \in Levels : BeginSetAsGlobal(t, v)
       \/ \E o \in ReadOps : BeginRead(t, o)
    /\ UNCHANGED <<ops, obsVars, forced, pureVars>>

NextLive == \E t \in Threads : ThreadCall(t) \/ ThreadStep(t)

SpecLive ==
    /\ Init
    /\ [][NextLive]_vars
    /\ \A t \in Threads : WF_vars(ThreadStep(t))

TypeOK ==
    /\ REPORTING \in Levels
    /\ REPORTING_SET \in BOOLEAN
    /\ writer \subseteq Threads
    /\ Cardinality(writer) <= 1
    /\ readers \subseteq Threads
    /\ \A t \in Threads : t \in writer <=> pc[t] \in {"write", "twrite"}
    /\ \A t \in Threads : t \in readers <=> pc[t] = "read"
    /\ ops \in 0 .. MaxOps

(* ================================================================ claims *)

(* no set_as_global call has started *)
NeverSet == distinctCalls /\ setCalls = {}

(* the level of the call that flipped the latch *)
FirstLevel == firsts[1].level

IsReadRet(r) == r.op \in ReadOps

(* C1: a set_as_global call that started when the latch was already set    *)
(* returns at its compare_exchange, without error, without writing the     *)
(* stored level and leaving the latch set, whatever its level.             *)
C1_SetOnceNoOp ==
    [][\A t \in Threads :
          (pc[t] = "cas" /\ startSet[t] /\ pc'[t] # pc[t]) =>
              /\ pc'[t] = "idle"
              /\ ret'[t] = SetRet(self[t])
              /\ REPORTING' = REPORTING
              /\ written' = written
              /\ REPORTING_SET' = TRUE]_vars

(* a call that started on a set latch, with a level other than the stored  *)
(* one, has returned after the stored level was written                    *)
C1_Witness ==
    \E t \in Threads :
        /\ pc[t] = "idle"
        /\ ret[t].op = "set_as_global"
        /\ startSet[t]
        /\ Len(written) = 1
        /\ ret[t].val # REPORTING

(* C2: in every interleaving of the set_as_global calls exactly one call   *)
(* finds the latch unset, and only that call goes on to write the stored   *)
(* level.                                                                  *)
C2_SingleFirstSetter ==
    /\ Len(firsts) <= 1
    /\ REPORTING_SET <=> Len(firsts) = 1
    /\ \A i \in 1 .. Len(written) : IsFirst(written[i].thread, written[i].level)
    /\ \A t \in Threads : pc[t] \in {"wlock", "write"} => IsFirst(t, self[t])

(* two calls that both started on the unset latch: one has written, the    *)
(* other has returned without writing                                      *)
C2_Witness ==
    \E t, u \in Threads :
        /\ t # u
        /\ Len(firsts) = 1
        /\ firsts[1].thread = t
        /\ written = <<firsts[1]>>
        /\ pc[u] = "idle"
        /\ ret[u].op = "set_as_global"
        /\ ~startSet[u]

(* C3: with the production operations only, once the stored level has      *)
(* been written no step changes it or writes it again.                     *)
C3_WrittenOnce ==
    [][written # <<>> => (REPORTING' = REPORTING /\ written' = written)]_vars

(* after the write, another thread has completed a set_as_global with a    *)
(* different level and a level() that started later has returned           *)
C3_Witness ==
    \E t, u \in Threads :
        /\ Len(written) = 1
        /\ written[1].thread # t
        /\ ret[t].op = "set_as_global"
        /\ ret[t].val # REPORTING
        /\ ret[u].op = "level"
        /\ fresh[u]

(* C4: a thread whose own set_as_global call has returned (so that it has  *)
(* observed the latch as set) gets the same value from all its later       *)
(* level() calls.                                                          *)
C4_NoChangeAfterLatchObserved ==
    \A t \in Threads : Cardinality(seen[t]) <= 1

(* C5: when the threads call set_as_global once each with distinct levels, *)
(* exactly one of the levels is stored and every level() a thread makes    *)
(* after its own set_as_global has returned gives that level.              *)
C5_AllReadTheStoredLevel ==
    distinctCalls =>
        /\ \A t \in Threads :
              (returned[t] /\ ret[t].op = "level") =>
                  (Len(firsts) = 1 /\ ret[t].val = FirstLevel)
        /\ (\A t \in Threads : returned[t]) =>
              (written = <<firsts[1]>> /\ REPORTING = FirstLevel)

(* C6: the latch flip and the store of the level are one atomic step: in   *)
(* every state in which the latch is set the stored level is the level of  *)
(* the call that flipped it.                                               *)
C6_FlipAndStoreAtomic ==
    REPORTING_SET => (Len(firsts) = 1 /\ REPORTING = FirstLevel)

(* C7: a read operation that starts after the call that flipped the latch  *)
(* has returned gives the result for that call's level, whatever other     *)
(* set_as_global calls run.                                                *)
C7_ReadsAfterFirstSet ==
    \A t \in Threads :
        (fresh[t] /\ IsReadRet(ret[t])) =>
            /\ Len(firsts) = 1
            /\ REPORTING = FirstLevel
            /\ ret[t].val = Eval(ret[t].op, FirstLevel)

(* a level() that started after the first setter returned gave its level,  *)
(* while another thread has completed a set_as_global with another level   *)
C7_Witness ==
    \E t, u \in Threads :
        /\ fresh[t]
        /\ ret[t].op = "level"
        /\ ret[t].val # DefaultLevel
        /\ firsts[1].thread # u
        /\ ret[u].op = "set_as_global"
        /\ ret[u].val # ret[t].val

(* C8: while set_as_global has never been called, level() gives Quite,     *)
(* is_quite() true, is_terse() false and is_verbose() false, to every      *)
(* thread.                                                                 *)
C8_DefaultOnFreshRegistry ==
    NeverSet =>
        \A t \in Threads :
            /\ ret[t].op = "level" => ret[t].val = Quite
            /\ ret[t].op = "is_quite" => ret[t].val = TRUE
            /\ ret[t].op = "is_terse" => ret[t].val = FALSE
            /\ ret[t].op = "is_verbose" => ret[t].val = FALSE

(* level() and is_terse() have returned to two threads of a fresh registry *)
(* on which all the calls of the run have been made                        *)
C8_Witness ==
    /\ NeverSet
    /\ ops = MaxOps
    /\ \E t, u \in Threads :
          /\ ret[t] = [op |-> "level", val |-> Quite]
          /\ ret[u] = [op |-> "is_terse", val |-> FALSE]

(* C9: a read operation that starts after set_as_global(v) has completed   *)
(* on a fresh registry gives: level() = v, is_terse() = (v # Quite),       *)
(* is_verbose() = (v = Verbose), is_quite() = (v = Quite).                 *)
C9_PredicateConsistency ==
    \A t \in Threads :
        (fresh[t] /\ Len(firsts) = 1) =>
            /\ ret[t].op = "level" => ret[t].val = FirstLevel
            /\ ret[t].op = "is_quite" => ret[t].val = (FirstLevel = Quite)
            /\ ret[t].op = "is_terse" => ret[t].val = (FirstLevel # Quite)
            /\ ret[t].op = "is_verbose" => ret[t].val = (FirstLevel = Verbose)

(* after set_as_global(Verbose): is_terse() true and is_verbose() true;    *)
(* or after set_as_global(Terse): is_terse() true and is_verbose() false   *)
C9_Witness ==
    \E t, u \in Threads :
        /\ fresh[t] /\ fresh[u]
        /\ ret[t] = [op |-> "is_terse", val |-> TRUE]
        /\ \/ FirstLevel = Verbose /\ ret[u] = [op |-> "is_verbose", val |-> TRUE]
           \/ FirstLevel = Terse /\ ret[u] = [op |-> "is_verbose", val |-> FALSE]

(* C10: fmt(from_str(s)) = s for each of the three names s, and            *)
(* from_str(fmt(v)) = Ok(v) for each level v; fmt writes a text for every  *)
(* level.                                                                  *)
C10_RoundTrip ==
    /\ (shownIsParsed /\ source \in {"quite", "terse", "verbose"}) =>
          text = source
    /\ reparsed # NoParse => reparsed = Ok(shown)
    /\ text # NoText => text \in {"quite", "terse", "verbose"}
    /\ (source \in {"quite", "terse", "verbose"} /\ parsed # NoParse) =>
          parsed.ok

(* both round trips have been made, on the name and the level of Quite     *)
C10_Witness ==
    /\ shownIsParsed /\ source = "quite" /\ text = "quite"
    /\ shown = Quite /\ reparsed = Ok(Quite)

(* C11: from_str fails on every text other than the three names, without   *)
(* trimming or case folding; the error is the text, as {:?} writes it,     *)
(* followed by " is not a valid verbosity"; and a from_str that fails      *)
(* leaves the latch and the stored level as they were.                     *)
Names == {"quite", "terse", "verbose"}

C11_InvalidLevel ==
    [][/\ (source \notin Names /\ parsed # NoParse) =>
              /\ ~parsed.ok
              /\ parsed.err # NoText
              /\ source = "quiet" =>
                    parsed.err = "\"quiet\" is not a valid verbosity"
              /\ source = "Terse" =>
                    parsed.err = "\"Terse\" is not a valid verbosity"
              /\ source = " verbose" =>
                    parsed.err = "\" verbose\" is not a valid verbosity"
              /\ source = "" =>
                    parsed.err = "\"\" is not a valid verbosity"
              /\ source = "loud" =>
                    parsed.err = "\"loud\" is not a valid verbosity"
              /\ source = "\"terse\"" =>
                    parsed.err = "\"\\\"terse\\\"\" is not a valid verbosity"
       /\ (parsed = NoParse /\ parsed' # NoParse /\ ~parsed'.ok) =>
              (REPORTING' = REPORTING /\ REPORTING_SET' = REPORTING_SET)]_vars

(* from_str has failed on " verbose" in a registry set to Verbose *)
C11_Witness ==
    /\ source = " verbose"
    /\ parsed = Err("\" verbose\" is not a valid verbosity")
    /\ REPORTING_SET
    /\ REPORTING = Verbose

(* C12: under fair scheduling every call returns, and a set_as_global call *)
(* that finds the latch set returns at its compare_exchange without        *)
(* touching the lock of REPORTING, whoever holds or awaits that lock.      *)
C12_CallsTerminate ==
    /\ \A t \in Threads : (pc[t] # "idle") ~> (pc[t] = "idle")
    /\ [][\A t \in Threads :
             (pc[t] = "cas" /\ REPORTING_SET /\ pc'[t] # pc[t]) =>
                 (pc'[t] = "idle" /\ writer' = writer /\ readers' = readers)]_vars

(* a call that lost the compare_exchange has returned while the call that  *)
(* won it has the writer bit and has yet to write                          *)
C12_Witness ==
    \E t, u \in Threads :
        /\ ret[t].op = "set_as_global"
        /\ pc[t] = "idle"
        /\ pc[u] = "write"
        /\ written = <<>>
        /\ REPORTING_SET

(* C17: under fair scheduling of the threads, with the task-fair lock,     *)
(* once set_as_global(v) has set the latch the stored level comes to be v  *)
(* and stays v for ever, while threads go on reading and calling           *)
(* set_as_global.                                                          *)
C17_EventuallyPublished ==
    \A v \in Levels :
        (Len(firsts) = 1 /\ FirstLevel = v) ~> [](REPORTING = v)

(* Verbose has been published, and after that a thread has entered         *)
(* set_as_global with another level while another thread reads             *)
C17_Witness ==
    \E t, u \in Threads :
        /\ Len(firsts) = 1
        /\ written = <<firsts[1]>>
        /\ REPORTING = Verbose
        /\ pc[t] = "cas"
        /\ self[t] # Verbose
        /\ pc[u] = "read"

(* C13: Quite < Terse < Verbose; the comparison of the levels is           *)
(* irreflexive, transitive and total; and is_terse() is the test           *)
(* level() >= Terse.                                                       *)
C13_TotalOrder ==
    /\ ord.aa # NoCmp => ord.aa = "Equal"
    /\ ord.ab # NoCmp =>
          /\ (ord.ab = "Equal") <=> (ord.a = ord.b)
          /\ (ord.ab = "Less") <=> (ord.ba = "Greater")
          /\ (ord.ab = "Greater") <=> (ord.ba = "Less")
          /\ (ord.a = Quite /\ ord.b \in {Terse, Verbose}) => ord.ab = "Less"
          /\ (ord.a = Terse /\ ord.b = Verbose) => ord.ab = "Less"
    /\ (ord.ab = "Less" /\ ord.bc = "Less") => ord.ac \in {"Less", NoCmp}
    /\ ord.tested => ord.terse = ord.ge

(* Quite, Terse and Verbose have been compared, and is_terse computed for  *)
(* Verbose                                                                  *)
C13_Witness ==
    /\ ord.a = Quite /\ ord.b = Terse /\ ord.c = Verbose
    /\ ord.ab = "Less" /\ ord.bc = "Less" /\ ord.ac = "Less"
    /\ ord.aa = "Equal"
    /\ ord.tested /\ ord.terse /\ ord.ge

(* C14: set_as_global_for_test(v) stores v whether or not the latch is     *)
(* set and leaves the latch as it is: on a set latch the later             *)
(* set_as_global calls are still ignored, on an unset latch a later        *)
(* set_as_global(w) still finds the latch unset and stores w over v.       *)
C14_ForTestOverwrites ==
    forced.done =>
        /\ IF forced.before = Len(written)
           THEN REPORTING = forced.level
           ELSE Len(firsts) = 1 /\ REPORTING = FirstLevel
        /\ forced.set => REPORTING_SET
        /\ REPORTING_SET <=> Len(firsts) = 1
        /\ Len(written) <= 1
        /\ \A i \in 1 .. Len(written) :
              IsFirst(written[i].thread, written[i].level)
        /\ \A t \in Threads :
              pc[t] \in {"wlock", "write"} => IsFirst(t, self[t])

(* set_as_global_for_test stored a level on the unset latch, and then a    *)
(* set_as_global with another level has found the latch unset and has      *)
(* stored its level over it                                                *)
C14_Witness ==
    /\ forced.done
    /\ ~forced.set
    /\ forced.before = 0
    /\ Len(written) = 1
    /\ forced.level # REPORTING
    /\ forced.level # Quite

(* C15: the latch starts unset, and once it is set no step of              *)
(* set_as_global, of a read operation or of set_as_global_for_test unsets  *)
(* it.                                                                     *)
C15_LatchMonotone ==
    [][/\ (ops = 0 => ~REPORTING_SET)
       /\ (REPORTING_SET => REPORTING_SET')]_vars

(* on the set latch a set_as_global_for_test and a further set_as_global   *)
(* have returned                                                           *)
C15_Witness ==
    /\ REPORTING_SET
    /\ forced.done
    /\ forced.set
    /\ \E t \in Threads : ret[t] = ForTestRet(REPORTING)
    /\ \E t \in Threads : ret[t].op = "set_as_global" /\ ~IsFirst(t, ret[t].val)

(* C16: with the production operations only, the stored level is at every  *)
(* moment the default Quite or the level of the call that flipped the      *)
(* latch; it is Quite while the latch is unset; the level of a call that   *)
(* found the latch set is never stored.                                    *)
C16_StoredIsDefaultOrFirst ==
    /\ ~REPORTING_SET => REPORTING = Quite
    /\ REPORTING_SET => (Len(firsts) = 1 /\ REPORTING \in {Quite, FirstLevel})
    /\ written = <<>> => REPORTING = Quite
    /\ written # <<>> => (Len(firsts) = 1 /\ REPORTING = FirstLevel)

(* a call that found the latch set, with a level that is neither Quite nor *)
(* the stored one, has returned                                            *)
C16_Witness ==
    \E t \in Threads :
        /\ ret[t].op = "set_as_global"
        /\ Len(firsts) = 1
        /\ firsts[1].thread # t
        /\ ret[t].val \notin {Quite, FirstLevel}
        /\ REPORTING = FirstLevel
        /\ FirstLevel # Quite
====
